---- MODULE Spec2Model ----
(***************************************************************************)
(* Model of processing_time_visualizer/node.py: the ProcessingTimeVisualizer*)
(* node (construction, refresh tick update_screen, ingestion callback) and  *)
(* main (spin, shutdown handler, exit code).                                *)
(*                                                                          *)
(* ProcessingTimeTree objects are mutable Python objects that the three     *)
(* dictionaries hold by reference, so the model keeps a heap of tree values *)
(* and the dictionaries map a producer name to a heap address.              *)
(***************************************************************************)
EXTENDS Integers, Sequences, FiniteSets, TLC

\* ---------------------------------------------------------------- bounds
\* number of messages the subscription delivers in one run
MaxMsgs == 2

\* ---------------------------------------------------------- input sets
Names == {"A", "B"}
\* processing times of a root node
Times == {1, 2}
\* number of children under the root of a raw snapshot, per producer:
\* A reports a bare root or a root that called f twice, B a bare root
Shapes(n) == IF n = "A" THEN {0, 2} ELSE {0}
ChildName == "f"
NoTopic == "None"
Topic == "/processing_time"
Keys == {"c", "s", "y", "q", "r", "x", "none"}

VARIABLES
    pc,               \* position of main
    topic_name,       \* self.topic_name
    subscriber,       \* a subscription exists
    timer,            \* the 0.1 s timer exists
    quit_option,      \* self.quit_option
    trees,            \* self.trees: insertion-ordered dict name -> address
    worst_case_tree,  \* self.worst_case_tree
    total_tree,       \* self.total_tree
    heap,             \* the ProcessingTimeTree objects, by address
    show_comment,     \* self.show_comment
    summarize_output, \* self.summarize_output
    curses_on,        \* the terminal is in curses mode
    acquires,         \* calls of init_curses so far
    releases,         \* calls of exit_curses so far
    frame,            \* what print_trees last wrote to the curses screen
    key,              \* the key the last tick polled
    clipboard,        \* content of the system clipboard
    output,           \* sections printed to the normal terminal
    exit_code,        \* exit status, once pc = "exited"
    stop_cause,       \* how the process left the running loop
    ingested          \* history: <<name, tree value>> of every callback

vars == <<pc, topic_name, subscriber, timer, quit_option, trees, worst_case_tree,
          total_tree, heap, show_comment, summarize_output, curses_on, acquires,
          releases, frame, key, clipboard, output, exit_code, stop_cause, ingested>>

\* ------------------------------------------------- Python dict (ordered)
Has(d, k) == \E i \in 1..Len(d) : d[i][1] = k
Get(d, k) == d[CHOOSE i \in 1..Len(d) : d[i][1] = k][2]
Put(d, k, v) ==
    IF Has(d, k)
    THEN [i \in 1..Len(d) |-> IF d[i][1] = k THEN <<k, v>> ELSE d[i]]
    ELSE Append(d, <<k, v>>)
DictKeys(d) == {d[i][1] : i \in 1..Len(d)}
\* d.values() with every address replaced by the object it refers to
Values(d, h) == [i \in 1..Len(d) |-> h[d[i][2]]]

\* ------------------------------------------------------- the tree model
\* raw snapshots the subscription can deliver: a root with its children
\* (each taking the root's whole time), as the transport hands them over
RawChild(t) == [name |-> ChildName, duration |-> t, children |-> <<>>]
RawSnapshot(n, t, k) ==
    [name |-> n, duration |-> t, children |-> [i \in 1..k |-> RawChild(t)]]
RawSnapshots ==
    UNION { { RawSnapshot(n, t, k) : t \in Times, k \in Shapes(n) } : n \in Names }

\* siblings that carry the same name are folded into the first of them
merge_sibling(acc, c) ==
    IF \E i \in 1..Len(acc) : acc[i].name = c.name
    THEN LET i == CHOOSE j \in 1..Len(acc) : acc[j].name = c.name
         IN  [acc EXCEPT ![i].processing_time = @ + c.processing_time]
    ELSE Append(acc, c)

RECURSIVE merge_siblings(_, _)
merge_siblings(acc, rest) ==
    IF rest = <<>> THEN acc
    ELSE merge_siblings(merge_sibling(acc, rest[1]), Tail(rest))

\* ProcessingTimeTree.from_msg(msg, summarize): the tree of the message;
\* with summarize set, the summarized tree (same-name siblings as one node)
RECURSIVE from_msg(_, _)
from_msg(msg, summarize) ==
    LET children == [i \in 1..Len(msg.children) |->
                        from_msg(msg.children[i], summarize)]
    IN  [name |-> msg.name,
         processing_time |-> msg.duration,
         children |-> IF summarize THEN merge_siblings(<<>>, children)
                      ELSE children]

Min(a, b) == IF a < b THEN a ELSE b

\* self.summarize_tree(other): in place, node-wise, children pairwise by index
RECURSIVE summarize_tree(_, _)
summarize_tree(self, other) ==
    [name |-> self.name,
     processing_time |-> self.processing_time + other.processing_time,
     children |->
        [i \in 1..Len(self.children) |->
            IF i <= Min(Len(self.children), Len(other.children))
            THEN summarize_tree(self.children[i], other.children[i])
            ELSE self.children[i]]]

\* tree.__dict__(): the plain structured form
RECURSIVE to_dict(_)
to_dict(tree) ==
    [name |-> tree.name,
     processing_time |-> tree.processing_time,
     children |-> [i \in 1..Len(tree.children) |-> to_dict(tree.children[i])]]

\* json.dumps of a list of dicts
json_dumps(list) == [kind |-> "json", body |-> list]

\* tree.to_lines(summarize=...)
to_lines(tree, summarize) == [tree |-> tree, summarize |-> summarize]

\* print_trees(title, topic_name, trees, stdscr, show_comment, summarize)
print_trees(topic, values, comment, summarize) ==
    [kind |-> "logs", topic |-> topic, trees |-> values,
     show_comment |-> comment, summarize |-> summarize]

NoText == [kind |-> "empty"]

\* ------------------------------------------------------------------ Init
Init ==
    /\ pc = "init"
    /\ topic_name \in {NoTopic, Topic}
    /\ subscriber = FALSE
    /\ timer = FALSE
    /\ quit_option = "None"
    /\ trees = <<>>
    /\ worst_case_tree = <<>>
    /\ total_tree = <<>>
    /\ heap = <<>>
    /\ show_comment = FALSE
    /\ summarize_output = TRUE
    /\ curses_on = FALSE
    /\ acquires = 0
    /\ releases = 0
    /\ frame = NoText
    /\ key = "none"
    /\ clipboard = NoText
    /\ output = <<>>
    /\ exit_code = 0
    /\ stop_cause = "None"
    /\ ingested = <<>>

\* --------------------------------------------------------- construction
\* utils.exit_curses(): leave curses mode
exit_curses ==
    /\ curses_on' = FALSE
    /\ releases' = releases + 1

\* mutant of subscribe_processing_time_tree: the subscription is created
\* before the wait for the topic
subscribe_before_wait ==
    /\ pc = "init"
    /\ subscriber' = TRUE
    /\ \E topic_found \in BOOLEAN :
        IF ~topic_found
        THEN /\ pc' = "exited"
             /\ exit_code' = 1
             /\ stop_cause' = "setup_failure"
             /\ UNCHANGED topic_name
        ELSE /\ topic_name' = IF topic_name = NoTopic THEN Topic ELSE topic_name
             /\ pc' = "subscribed"
             /\ UNCHANGED <<exit_code, stop_cause>>
    /\ UNCHANGED <<timer, quit_option, trees, worst_case_tree, total_tree, heap,
                   show_comment, summarize_output, curses_on, acquires, releases,
                   frame, key, clipboard, output, ingested>>

\* __init__ line 26: subscribe_processing_time_tree(); the wait either finds
\* a topic or times out
subscribe_processing_time_tree ==
    /\ pc = "init"
    /\ \E topic_found \in BOOLEAN :
        IF ~topic_found
        THEN \* exit(1)
             /\ pc' = "exited"
             /\ exit_code' = 1
             /\ stop_cause' = "setup_failure"
             /\ UNCHANGED <<topic_name, subscriber>>
        ELSE \* select_topic picks the topic when -t was not given
             /\ topic_name' = IF topic_name = NoTopic THEN Topic ELSE topic_name
             /\ subscriber' = TRUE
             /\ pc' = "subscribed"
             /\ UNCHANGED <<exit_code, stop_cause>>
    /\ UNCHANGED <<timer, quit_option, trees, worst_case_tree, total_tree, heap,
                   show_comment, summarize_output, curses_on, acquires, releases,
                   frame, key, clipboard, output, ingested>>

\* __init__ lines 27-34: fields, init_curses(), first print_trees
init_fields ==
    /\ pc = "subscribed"
    /\ quit_option' = "None"
    /\ trees' = <<>>
    /\ worst_case_tree' = <<>>
    /\ total_tree' = <<>>
    /\ curses_on' = TRUE
    /\ acquires' = acquires + 1
    /\ show_comment' = FALSE
    /\ summarize_output' = TRUE
    /\ frame' = print_trees(topic_name, <<>>, FALSE, FALSE)
    /\ pc' = "curses"
    /\ UNCHANGED <<topic_name, subscriber, timer, heap, releases, key, clipboard,
                   output, exit_code, stop_cause, ingested>>

\* __init__ line 36, then main enters rclpy.spin(node)
create_timer ==
    /\ pc = "curses"
    /\ timer' = TRUE
    /\ pc' = "spin"
    /\ UNCHANGED <<topic_name, subscriber, quit_option, trees, worst_case_tree,
                   total_tree, heap, show_comment, summarize_output, curses_on,
                   acquires, releases, frame, key, clipboard, output, exit_code,
                   stop_cause, ingested>>

\* main lines 155-157: KeyboardInterrupt while the node is constructed
construct_interrupt ==
    /\ pc \in {"init", "subscribed", "curses"}
    /\ exit_curses
    /\ pc' = "exited"
    /\ exit_code' = 0
    /\ stop_cause' = "construct_interrupt"
    /\ UNCHANGED <<topic_name, subscriber, timer, quit_option, trees,
                   worst_case_tree, total_tree, heap, show_comment,
                   summarize_output, acquires, frame, key, clipboard, output,
                   ingested>>

\* ------------------------------------------------------------- the tick
\* mutant of toggle: the key switches the flag on instead of flipping it
toggle_sets(flag, k, on) == IF k = on THEN TRUE ELSE flag

toggle(flag, k, on) == IF k = on THEN ~flag ELSE flag

\* mutant of update_screen: 'q' and 'r' record the quit option but do not
\* raise, so the loop goes on
update_screen_no_raise ==
    /\ pc = "spin"
    /\ \E k \in Keys, copy_ok \in BOOLEAN :
        LET comment == toggle(show_comment, k, "c")
            summarize == toggle(summarize_output, k, "s")
            logs == print_trees(topic_name, Values(trees, heap), comment, summarize)
        IN  /\ (k # "y" => copy_ok)
            /\ key' = k
            /\ show_comment' = comment
            /\ summarize_output' = summarize
            /\ frame' = logs
            /\ IF k = "y" /\ copy_ok THEN clipboard' = logs ELSE UNCHANGED clipboard
            /\ IF k = "y" /\ ~copy_ok
               THEN \* the exception leaves update_screen, spin and main
                    /\ pc' = "exited"
                    /\ exit_code' = 1
                    /\ stop_cause' = "export_failure"
                    /\ UNCHANGED quit_option
               ELSE IF k \in {"q", "r"}
               THEN \* raise KeyboardInterrupt
                    /\ quit_option' = k
                    /\ UNCHANGED <<pc, stop_cause, exit_code>>
               ELSE UNCHANGED <<pc, exit_code, stop_cause, quit_option>>
    /\ UNCHANGED <<topic_name, subscriber, timer, trees, worst_case_tree,
                   total_tree, heap, curses_on, acquires, releases, output,
                   ingested>>

\* mutant of update_screen: the tick empties self.trees after rendering
update_screen_clears ==
    /\ pc = "spin"
    /\ \E k \in Keys, copy_ok \in BOOLEAN :
        LET comment == toggle(show_comment, k, "c")
            summarize == toggle(summarize_output, k, "s")
            logs == print_trees(topic_name, Values(trees, heap), comment, summarize)
        IN  /\ (k # "y" => copy_ok)
            /\ key' = k
            /\ show_comment' = comment
            /\ summarize_output' = summarize
            /\ frame' = logs
            /\ IF k = "y" /\ copy_ok THEN clipboard' = logs ELSE UNCHANGED clipboard
            /\ IF k = "y" /\ ~copy_ok
               THEN \* the exception leaves update_screen, spin and main
                    /\ pc' = "exited"
                    /\ exit_code' = 1
                    /\ stop_cause' = "export_failure"
                    /\ UNCHANGED quit_option
               ELSE IF k \in {"q", "r"}
               THEN \* raise KeyboardInterrupt
                    /\ quit_option' = k
                    /\ pc' = "except"
                    /\ stop_cause' = k
                    /\ UNCHANGED exit_code
               ELSE UNCHANGED <<pc, exit_code, stop_cause, quit_option>>
    /\ trees' = <<>>
    /\ UNCHANGED <<topic_name, subscriber, timer, worst_case_tree,
                   total_tree, heap, curses_on, acquires, releases, output,
                   ingested>>

\* mutant of update_screen: the frame is rendered before the key is applied
update_screen_render_first ==
    /\ pc = "spin"
    /\ \E k \in Keys, copy_ok \in BOOLEAN :
        LET comment == toggle(show_comment, k, "c")
            summarize == toggle(summarize_output, k, "s")
            logs == print_trees(topic_name, Values(trees, heap),
                                show_comment, summarize_output)
        IN  /\ (k # "y" => copy_ok)
            /\ key' = k
            /\ show_comment' = comment
            /\ summarize_output' = summarize
            /\ frame' = logs
            /\ IF k = "y" /\ copy_ok THEN clipboard' = logs ELSE UNCHANGED clipboard
            /\ IF k = "y" /\ ~copy_ok
               THEN \* the exception leaves update_screen, spin and main
                    /\ pc' = "exited"
                    /\ exit_code' = 1
                    /\ stop_cause' = "export_failure"
                    /\ UNCHANGED quit_option
               ELSE IF k \in {"q", "r"}
               THEN \* raise KeyboardInterrupt
                    /\ quit_option' = k
                    /\ pc' = "except"
                    /\ stop_cause' = k
                    /\ UNCHANGED exit_code
               ELSE UNCHANGED <<pc, exit_code, stop_cause, quit_option>>
    /\ UNCHANGED <<topic_name, subscriber, timer, trees, worst_case_tree,
                   total_tree, heap, curses_on, acquires, releases, output,
                   ingested>>

\* update_screen with the key getch returned; pyperclip.copy either works
\* or raises PyperclipException
update_screen ==
    /\ pc = "spin"
    /\ \E k \in Keys, copy_ok \in BOOLEAN :
        LET comment == toggle(show_comment, k, "c")
            summarize == toggle(summarize_output, k, "s")
            logs == print_trees(topic_name, Values(trees, heap), comment, summarize)
        IN  /\ (k # "y" => copy_ok)
            /\ key' = k
            /\ show_comment' = comment
            /\ summarize_output' = summarize
            /\ frame' = logs
            /\ IF k = "y" /\ copy_ok THEN clipboard' = logs ELSE UNCHANGED clipboard
            /\ IF k = "y" /\ ~copy_ok
               THEN \* the exception leaves update_screen, spin and main
                    /\ pc' = "exited"
                    /\ exit_code' = 1
                    /\ stop_cause' = "export_failure"
                    /\ UNCHANGED quit_option
               ELSE IF k \in {"q", "r"}
               THEN \* raise KeyboardInterrupt
                    /\ quit_option' = k
                    /\ pc' = "except"
                    /\ stop_cause' = k
                    /\ UNCHANGED exit_code
               ELSE UNCHANGED <<pc, exit_code, stop_cause, quit_option>>
    /\ UNCHANGED <<topic_name, subscriber, timer, trees, worst_case_tree,
                   total_tree, heap, curses_on, acquires, releases, output,
                   ingested>>

\* --------------------------------------------------------- the callback
\* mutant of latest_update: an entry, once made, is never overwritten
latest_update_keep_first(d, name, addr) ==
    IF Has(d, name) THEN d ELSE Put(d, name, addr)

\* line 125
latest_update(d, name, addr) == Put(d, name, addr)

\* lines 127-134; h holds the new tree at addr
worst_case_update(d, h, name, addr) ==
    IF ~Has(d, name)
    THEN Put(d, name, addr)
    ELSE Put(d, name,
             IF h[addr].processing_time > h[Get(d, name)].processing_time
             THEN addr
             ELSE Get(d, name))

\* mutant of total_update: the first snapshot of a producer is not entered
total_update_never(d, name, addr) == d

\* lines 136-137: the dictionary after the total step
total_update(d, name, addr) ==
    IF ~Has(d, name) THEN Put(d, name, addr) ELSE d

\* mutant of total_accumulate: the new snapshot is never added
total_accumulate_dropped(d, h, name, addr) == h

\* lines 138-139: the objects after the total step
total_accumulate(d, h, name, addr) ==
    IF ~Has(d, name)
    THEN h
    ELSE [h EXCEPT ![Get(d, name)] = summarize_tree(@, h[addr])]

\* mutant of callback: control leaves the callback after line 125, with
\* trees updated and the other two maps not yet
callback_partial ==
    /\ pc = "spin"
    /\ Len(ingested) < MaxMsgs
    /\ \E msg \in RawSnapshots :
        LET tree == from_msg(msg, summarize_output)
            addr == Len(heap) + 1
            h1 == Append(heap, tree)
        IN  /\ trees' = latest_update(trees, tree.name, addr)
            /\ UNCHANGED <<worst_case_tree, total_tree>>
            /\ heap' = h1
            /\ ingested' = Append(ingested, <<tree.name, tree>>)
    /\ UNCHANGED <<pc, topic_name, subscriber, timer, quit_option, show_comment,
                   summarize_output, curses_on, acquires, releases, frame, key,
                   clipboard, output, exit_code, stop_cause>>

callback ==
    /\ pc = "spin"
    /\ Len(ingested) < MaxMsgs
    /\ \E msg \in RawSnapshots :
        LET tree == from_msg(msg, summarize_output)
            addr == Len(heap) + 1
            h1 == Append(heap, tree)
        IN  /\ trees' = latest_update(trees, tree.name, addr)
            /\ worst_case_tree' = worst_case_update(worst_case_tree, h1, tree.name, addr)
            /\ total_tree' = total_update(total_tree, tree.name, addr)
            /\ heap' = total_accumulate(total_tree, h1, tree.name, addr)
            /\ ingested' = Append(ingested, <<tree.name, tree>>)
    /\ UNCHANGED <<pc, topic_name, subscriber, timer, quit_option, show_comment,
                   summarize_output, curses_on, acquires, releases, frame, key,
                   clipboard, output, exit_code, stop_cause>>

\* ------------------------------------------------- leaving rclpy.spin
\* SIGINT (KeyboardInterrupt) or a shutdown of the context
\* (ExternalShutdownException) raised out of rclpy.spin
external_stop ==
    /\ pc = "spin"
    /\ stop_cause' = "external"
    /\ pc' = "except"
    /\ UNCHANGED <<topic_name, subscriber, timer, quit_option, trees,
                   worst_case_tree, total_tree, heap, show_comment,
                   summarize_output, curses_on, acquires, releases, frame, key,
                   clipboard, output, exit_code, ingested>>

\* rclpy.spin returns without raising; main falls off its end
spin_return ==
    /\ pc = "spin"
    /\ pc' = "exited"
    /\ exit_code' = 0
    /\ stop_cause' = "returned"
    /\ UNCHANGED <<topic_name, subscriber, timer, quit_option, trees,
                   worst_case_tree, total_tree, heap, show_comment,
                   summarize_output, curses_on, acquires, releases, frame, key,
                   clipboard, output, ingested>>

\* ------------------------------------------------ the shutdown handler
\* mutant of handler_teardown: exit_curses is called twice
handler_teardown_twice ==
    /\ pc = "except"
    /\ subscriber' = FALSE
    /\ timer' = FALSE
    /\ curses_on' = FALSE
    /\ releases' = releases + 2
    /\ pc' = "torn_down"
    /\ UNCHANGED <<topic_name, quit_option, trees, worst_case_tree, total_tree,
                   heap, show_comment, summarize_output, acquires, frame, key,
                   clipboard, output, exit_code, stop_cause, ingested>>

\* lines 161-162
handler_teardown ==
    /\ pc = "except"
    /\ subscriber' = FALSE
    /\ timer' = FALSE
    /\ exit_curses
    /\ pc' = "torn_down"
    /\ UNCHANGED <<topic_name, quit_option, trees, worst_case_tree, total_tree,
                   heap, show_comment, summarize_output, acquires, frame, key,
                   clipboard, output, exit_code, stop_cause, ingested>>

worst_case_json == json_dumps([i \in 1..Len(worst_case_tree) |->
                                 to_dict(heap[worst_case_tree[i][2]])])

section(title, d) ==
    [title |-> title,
     trees |-> [i \in 1..Len(d) |-> to_lines(heap[d[i][2]], summarize_output)]]

\* mutant of handler_report: the emptiness check of lines 165-166 is missing
handler_report_no_check ==
    /\ pc = "torn_down"
    /\ \E copy_ok \in BOOLEAN :
        /\ (quit_option # "r" => copy_ok)
        /\ IF quit_option = "r" /\ copy_ok
           THEN clipboard' = worst_case_json
           ELSE UNCHANGED clipboard
        /\ IF quit_option = "r" /\ ~copy_ok
           THEN /\ exit_code' = 1
                /\ UNCHANGED output
           ELSE /\ output' = output \o <<section("total", total_tree),
                                         section("worst", worst_case_tree)>>
                /\ exit_code' = 0
    /\ pc' = "exited"
    /\ UNCHANGED <<topic_name, subscriber, timer, quit_option, trees,
                   worst_case_tree, total_tree, heap, show_comment,
                   summarize_output, curses_on, acquires, releases, frame, key,
                   stop_cause, ingested>>

\* mutant of handler_report: the report is printed although the terminal
\* was never released (exit_curses moved behind the report)
handler_report_before_teardown ==
    /\ pc \in {"except", "torn_down"}
    /\ \E copy_ok \in BOOLEAN :
        /\ (quit_option # "r" => copy_ok)
        /\ IF quit_option = "r" /\ copy_ok
           THEN clipboard' = worst_case_json
           ELSE UNCHANGED clipboard
        /\ IF quit_option = "r" /\ ~copy_ok
           THEN /\ exit_code' = 1
                /\ UNCHANGED output
           ELSE IF Len(worst_case_tree) = 0
           THEN /\ exit_code' = 1
                /\ UNCHANGED output
           ELSE /\ output' = output \o <<section("total", total_tree),
                                         section("worst", worst_case_tree)>>
                /\ exit_code' = 0
    /\ pc' = "exited"
    /\ UNCHANGED <<topic_name, subscriber, timer, quit_option, trees,
                   worst_case_tree, total_tree, heap, show_comment,
                   summarize_output, curses_on, acquires, releases, frame, key,
                   stop_cause, ingested>>

\* lines 163-180: clipboard export on "r", exit(1) on an empty worst-case
\* map, else the total section and then the worst-case section
handler_report ==
    /\ pc = "torn_down"
    /\ \E copy_ok \in BOOLEAN :
        /\ (quit_option # "r" => copy_ok)
        /\ IF quit_option = "r" /\ copy_ok
           THEN clipboard' = worst_case_json
           ELSE UNCHANGED clipboard
        /\ IF quit_option = "r" /\ ~copy_ok
           THEN \* PyperclipException leaves main
                /\ exit_code' = 1
                /\ UNCHANGED output
           ELSE IF Len(worst_case_tree) = 0
           THEN \* exit(1)
                /\ exit_code' = 1
                /\ UNCHANGED output
           ELSE /\ output' = output \o <<section("total", total_tree),
                                         section("worst", worst_case_tree)>>
                /\ exit_code' = 0
    /\ pc' = "exited"
    /\ UNCHANGED <<topic_name, subscriber, timer, quit_option, trees,
                   worst_case_tree, total_tree, heap, show_comment,
                   summarize_output, curses_on, acquires, releases, frame, key,
                   stop_cause, ingested>>

Next ==
    \/ subscribe_processing_time_tree
    \/ init_fields
    \/ create_timer
    \/ construct_interrupt
    \/ update_screen
    \/ callback
    \/ external_stop
    \/ spin_return
    \/ handler_teardown
    \/ handler_report

Spec == Init /\ [][Next]_vars

\* ================================================================ claims
\* the three triggers that stop the running loop into the shutdown handler
QuitCauses == {"q", "r", "external"}

\* the snapshots ingested for one producer, oldest first
SnapshotsOf(name) ==
    LET mine == SelectSeq(ingested, LAMBDA e : e[1] = name)
    IN  [i \in 1..Len(mine) |-> mine[i][2]]

RECURSIVE SumSeq(_)
SumSeq(q) == IF q = <<>> THEN 0 ELSE q[1] + SumSeq(Tail(q))

\* C1: terminal teardown runs exactly once when the loop was stopped by
\* 'q', 'r' or an external interrupt / shutdown: not yet on entry to the
\* handler, once from then on, never twice.
C1_TeardownExactlyOnce ==
    stop_cause \in QuitCauses =>
        \/ pc = "except" /\ releases = 0
        \/ pc \in {"torn_down", "exited"} /\ releases = 1

C1_Witness ==
    /\ pc = "exited"
    /\ stop_cause = "external"
    /\ acquires = 1
    /\ releases = 1

\* C2: on every path that leaves the running loop after init_curses (quit
\* key, external interrupt, a clipboard failure raised during a tick), the
\* terminal has been released when the process has exited.
C2_NoPathSkipsTeardown ==
    (pc = "exited" /\ acquires > 0
        /\ stop_cause \in QuitCauses \cup {"export_failure"}) => ~curses_on

\* C3: worst_case_tree[name] is the earliest ingested snapshot of the
\* producer whose root time is the maximum of all its root times, and its
\* root time is that maximum.
C3_WorstCaseIsEarliestMax ==
    \A name \in DictKeys(worst_case_tree) :
        LET snaps == SnapshotsOf(name)
            maxt == CHOOSE t \in {snaps[i].processing_time : i \in 1..Len(snaps)} :
                        \A i \in 1..Len(snaps) : snaps[i].processing_time <= t
            first == CHOOSE i \in 1..Len(snaps) :
                        /\ snaps[i].processing_time = maxt
                        /\ \A j \in 1..(i - 1) : snaps[j].processing_time < maxt
            worst == heap[Get(worst_case_tree, name)]
        IN  /\ worst.processing_time = maxt
            /\ worst = snaps[first]

\* C4: trees[name] is the snapshot most recently ingested for name, with
\* the processing times it arrived with, whatever was ingested for other
\* producers and whatever was accumulated into the total tree since.
C4_LatestIsMostRecent ==
    \A name \in Names :
        LET snaps == SnapshotsOf(name)
        IN  /\ Has(trees, name) <=> snaps # <<>>
            /\ Has(trees, name) => heap[Get(trees, name)] = snaps[Len(snaps)]

\* the same producer twice with different root times (so the first object
\* has been accumulated into), and the other producer not at all
C4_Witness ==
    /\ Len(ingested) = 2
    /\ ingested[1][1] = "A" /\ ingested[2][1] = "A"
    /\ ingested[1][2].processing_time = 2
    /\ ingested[2][2].processing_time = 1
    /\ heap[Get(total_tree, "A")].processing_time = 3
    /\ heap[Get(trees, "A")].processing_time = 1

\* C5: when the loop stops (q, r or external interrupt) with no snapshot
\* ever ingested, nothing of the report is printed, and the process exits
\* nonzero with the terminal already torn down.
C5_EmptyShutdown ==
    (stop_cause \in QuitCauses /\ Len(ingested) = 0) =>
        /\ Len(worst_case_tree) = 0
        /\ output = <<>>
        /\ pc = "exited" => (exit_code # 0 /\ ~curses_on /\ releases = 1)

C5_Witness ==
    /\ pc = "exited"
    /\ stop_cause = "r"
    /\ Len(ingested) = 0
    /\ exit_code = 1
    /\ releases = 1

\* C6: a quit with at least one tracked producer exits 0; a setup failure
\* and a quit with zero tracked producers exit 1; nothing else (in
\* particular no clipboard failure) exits nonzero.
C6_ExitCodes ==
    pc = "exited" =>
        /\ (stop_cause \in QuitCauses /\ Len(worst_case_tree) > 0) => exit_code = 0
        /\ (stop_cause = "setup_failure"
              \/ (stop_cause \in QuitCauses /\ Len(worst_case_tree) = 0))
            => exit_code = 1
        /\ exit_code # 0 =>
              \/ stop_cause = "setup_failure"
              \/ (stop_cause \in QuitCauses /\ Len(worst_case_tree) = 0)

\* C7: at shutdown with a non-empty worst_case_tree the textual report
\* (total section, then worst-case section) is printed; after 'r' a copy
\* that went through left the serialized worst-case entries on the
\* clipboard, and after 'q' or an external interrupt the shutdown path
\* wrote nothing to the clipboard.
C7_ShutdownReport ==
    (pc = "exited" /\ stop_cause \in QuitCauses /\ Len(worst_case_tree) > 0) =>
        /\ output = <<section("total", total_tree), section("worst", worst_case_tree)>>
        /\ (stop_cause = "r" /\ exit_code = 0) => clipboard = worst_case_json
        /\ stop_cause \in {"q", "external"} => clipboard.kind # "json"

\* C8: a clipboard failure during the 'y' export never ends the running
\* loop: the process never exits on account of it.
C8_ExportFailureRecovered ==
    ~(pc = "exited" /\ stop_cause = "export_failure")

\* C9: whenever a section of the final report has been printed, the
\* terminal display has already been released.
C9_ReleaseBeforeReport ==
    output # <<>> => (~curses_on /\ releases >= 1)

C9_Witness ==
    /\ Len(output) = 2
    /\ output[1].title = "total"
    /\ output[2].title = "worst"
    /\ ~curses_on
    /\ acquires = 1

\* C10: when all snapshots ingested for a producer have the same shape,
\* total_tree[name] carries at every node the sum of that node's processing
\* times over all of them.
RECURSIVE SameShape(_, _)
SameShape(a, b) ==
    /\ Len(a.children) = Len(b.children)
    /\ \A i \in 1..Len(a.children) : SameShape(a.children[i], b.children[i])

RECURSIVE NodeSum(_)
NodeSum(ts) ==
    [name |-> ts[1].name,
     processing_time |-> SumSeq([i \in 1..Len(ts) |-> ts[i].processing_time]),
     children |-> [j \in 1..Len(ts[1].children) |->
                      NodeSum([i \in 1..Len(ts) |-> ts[i].children[j]])]]

C10_TotalIsNodewiseSum ==
    \A name \in DictKeys(total_tree) :
        LET snaps == SnapshotsOf(name)
        IN  (\A i \in 1..Len(snaps) : SameShape(snaps[1], snaps[i]))
                => heap[Get(total_tree, name)] = NodeSum(snaps)

\* two snapshots of one producer, each with one (summarized) child, root
\* times 1 and 2: the total has 3 at the root and the children's sum at the
\* child
C10_Witness ==
    /\ Len(ingested) = 2
    /\ ingested[1][1] = "A" /\ ingested[2][1] = "A"
    /\ ingested[1][2].processing_time = 1
    /\ ingested[2][2].processing_time = 2
    /\ Len(ingested[1][2].children) = 1
    /\ Len(ingested[2][2].children) = 1
    /\ heap[Get(total_tree, "A")].processing_time = 3
    /\ heap[Get(total_tree, "A")].children[1].processing_time = 6

\* C11: a tick that polls 'c' flips show_comment and leaves
\* summarize_output alone, a tick that polls 's' flips summarize_output and
\* leaves show_comment alone (so two such ticks restore the flag), and a
\* tick with any other key or none leaves both flags unchanged.
C11_TogglesAreInvolutions ==
    [][update_screen =>
        /\ key' = "c" => (show_comment' = ~show_comment
                            /\ summarize_output' = summarize_output)
        /\ key' = "s" => (summarize_output' = ~summarize_output
                            /\ show_comment' = show_comment)
        /\ key' \notin {"c", "s"} => UNCHANGED <<show_comment, summarize_output>>
      ]_vars

\* show_comment is back at its initial value right after a tick that polled
\* 'c' (at least two such ticks), while summarize_output has been switched
\* off by an 's' tick
C11_Witness ==
    /\ pc = "spin"
    /\ key = "c"
    /\ show_comment = FALSE
    /\ summarize_output = FALSE

\* C12: when no matching topic is found within the wait, the process exits
\* with code 1 and has created no subscription, never acquired the terminal
\* display and not started the refresh timer.
C12_SetupFailure ==
    stop_cause = "setup_failure" =>
        /\ pc = "exited"
        /\ exit_code = 1
        /\ ~subscriber
        /\ acquires = 0
        /\ ~curses_on
        /\ ~timer

C12_Witness ==
    /\ pc = "exited"
    /\ stop_cause = "setup_failure"
    /\ topic_name = NoTopic
    /\ exit_code = 1

\* C13: accumulation into total_tree[name] leaves the snapshots held in
\* worst_case_tree[name] and trees[name] as they were ingested.
C13_TotalIsDeepCopy ==
    \A name \in DictKeys(total_tree) :
        LET snaps == SnapshotsOf(name)
            arrived == {snaps[i] : i \in 1..Len(snaps)}
        IN  /\ heap[Get(worst_case_tree, name)] \in arrived
            /\ heap[Get(trees, name)] \in arrived

\* C14: the maps an ingestion leaves behind do not depend on the view
\* state: with summarize_output at its other value the same message would
\* have left the same trees, worst_case_tree, total_tree and tree objects.
IngestWith(msg, flag) ==
    LET tree == from_msg(msg, flag)
        addr == Len(heap) + 1
        h1 == Append(heap, tree)
    IN  <<latest_update(trees, tree.name, addr),
          worst_case_update(worst_case_tree, h1, tree.name, addr),
          total_update(total_tree, tree.name, addr),
          total_accumulate(total_tree, h1, tree.name, addr)>>

C14_AggregatorIgnoresViewState ==
    [][\A msg \in RawSnapshots :
          (callback /\ <<trees', worst_case_tree', total_tree', heap'>>
                          = IngestWith(msg, summarize_output))
            => <<trees', worst_case_tree', total_tree', heap'>>
                  = IngestWith(msg, ~summarize_output)
      ]_vars

\* C15: the tick that polls 'q' or 'r' records the quit option and leaves
\* the loop in that same step; once the loop has stopped no tick runs, no
\* snapshot is ingested, and the quit option and the stop cause stay.
C15_StoppedIsTerminal ==
    [][/\ (update_screen /\ key' \in {"q", "r"}) =>
              (quit_option' = key' /\ stop_cause' = key' /\ pc' = "except")
       /\ pc \in {"except", "torn_down", "exited"} =>
              /\ pc' \in {"torn_down", "exited"}
              /\ ~update_screen
              /\ ~callback
              /\ UNCHANGED <<key, frame, ingested, trees, worst_case_tree,
                             total_tree, heap, show_comment, summarize_output,
                             quit_option, stop_cause>>
      ]_vars

C15_Witness ==
    /\ pc = "exited"
    /\ stop_cause = "r"
    /\ quit_option = "r"
    /\ key = "r"
    /\ Len(ingested) = 1

\* C16: a tick renders the latest snapshot of every producer ingested so
\* far, and at that moment worst_case_tree and total_tree already account
\* for every one of those snapshots (no callback is half applied).
IngestedNames == {ingested[i][1] : i \in 1..Len(ingested)}

LastOf(name) == LET snaps == SnapshotsOf(name) IN snaps[Len(snaps)]

RootTimes(name) ==
    LET snaps == SnapshotsOf(name)
    IN  [i \in 1..Len(snaps) |-> snaps[i].processing_time]

C16_TickSeesCompleteCallbacks ==
    [][update_screen =>
        /\ Len(frame'.trees) = Cardinality(IngestedNames)
        /\ {frame'.trees[i] : i \in 1..Len(frame'.trees)}
              = {LastOf(n) : n \in IngestedNames}
        /\ \A n \in IngestedNames :
              /\ Has(worst_case_tree, n) /\ Has(total_tree, n)
              /\ heap[Get(worst_case_tree, n)].processing_time
                    >= LastOf(n).processing_time
              /\ heap[Get(total_tree, n)].processing_time = SumSeq(RootTimes(n))
      ]_vars

\* a frame that shows both producers
C16_Witness ==
    /\ pc = "spin"
    /\ Len(ingested) = 2
    /\ frame.kind = "logs"
    /\ Len(frame.trees) = 2
    /\ frame.trees = Values(trees, heap)

\* C17: a tick (whatever the key) and the two steps of the shutdown handler
\* leave trees, worst_case_tree, total_tree and the tree objects unchanged;
\* a step that changes any of them is a callback.
C17_OnlyCallbackWrites ==
    [][/\ (update_screen \/ handler_teardown \/ handler_report) =>
              UNCHANGED <<trees, worst_case_tree, total_tree, heap>>
       /\ ~UNCHANGED <<trees, worst_case_tree, total_tree, heap>> => callback
      ]_vars

\* after 'r': a tick and the whole shutdown report ran over non-empty maps
C17_Witness ==
    /\ pc = "exited"
    /\ key = "r"
    /\ Len(output) = 2
    /\ Len(trees) = 2
    /\ frame.trees = Values(trees, heap)

\* C18: the three maps always hold exactly the producers ingested so far
\* (the history never shrinks, so no name is ever removed).
C18_SameProducers ==
    /\ DictKeys(trees) = IngestedNames
    /\ DictKeys(worst_case_tree) = IngestedNames
    /\ DictKeys(total_tree) = IngestedNames
    /\ Len(trees) = Cardinality(IngestedNames)
    /\ Len(worst_case_tree) = Cardinality(IngestedNames)
    /\ Len(total_tree) = Cardinality(IngestedNames)

C18_Witness ==
    /\ DictKeys(trees) = {"A", "B"}
    /\ DictKeys(worst_case_tree) = {"A", "B"}
    /\ DictKeys(total_tree) = {"A", "B"}

\* C19: the frame a tick renders uses the flags as toggled by the key of
\* that tick; the text 'y' copies is the frame of that tick; the tick that
\* polls 'q' or 'r' renders its frame too.
C19_ToggleThenRender ==
    [][update_screen =>
        /\ frame' = print_trees(topic_name, Values(trees, heap),
                                IF key' = "c" THEN ~show_comment ELSE show_comment,
                                IF key' = "s" THEN ~summarize_output
                                ELSE summarize_output)
        /\ (key' = "y" /\ pc' = "spin") => clipboard' = frame'
        /\ key' # "y" => clipboard' = clipboard
      ]_vars

\* 'y' right after comments were switched on and a snapshot had arrived
C19_Witness ==
    /\ pc = "spin"
    /\ key = "y"
    /\ show_comment
    /\ Len(frame.trees) = 1
    /\ clipboard = frame

\* C20: exit_curses is never executed more often than init_curses.
C20_ReleaseOnlyAcquired ==
    releases <= acquires
====
